---- MODULE Spec2Model ----
(***************************************************************************)
(* Payroll period processing of the HRS backend: the PayrollProcessor      *)
(* service (backend/payroll/services/processor.py), the PayrollCalculator  *)
(* it calls (backend/payroll/services/calculator.py) and the PayrollPeriod *)
(* and PayrollEntry rows it writes (backend/payroll/models.py).            *)
(*                                                                         *)
(* Money is an integer number of cents (DecimalField, decimal_places=2);   *)
(* a rate is an integer number of 1/10000 (DecimalField, decimal_places=4). *)
(* A nullable column is a set: {} for NULL, {v} for the value v.           *)
(* A text column is a sequence of segments; string concatenation is \o.    *)
(***************************************************************************)
EXTENDS Integers, Sequences, FiniteSets, TLC

\* ------------------------------------------------------------------ bounds
\* the clock (timezone.now()) runs from 0 to MaxTime
MaxTime == 1
\* reject is explored while hr_comments holds at most MaxTrail segments
MaxTrail == 4

\* the resolver is examined for the dates 0 .. MaxDate
MaxDate == 5

\* ------------------------------------------------------------ small domains
Procs == {"p1"}
Actors == {"amina", "brian"}
Employees == {"e1", "e2"}
EmployeeOrder == <<"e1", "e2">>
\* the comments argument: approve_hr's default '' or a text; a text for the others
HRComments == {<<>>, <<"checked">>}
MgmtComments == {<<"approved">>}
RejectComments == {<<"redo">>}
PeriodName == <<"January 2025">>
\* the month that datetime.date(period.year, period.month, 1) falls in, as a month index
PeriodDate == 3

Null == {}
Some(x) == {x}

VARIABLES
    db_period,   \* the PayrollPeriod row as stored
    entries,     \* the PayrollEntry rows of the period as stored, in insertion order
    users,       \* the User rows: employment_status, is_active, basic_salary, has_disability
    mem,         \* per PayrollProcessor instance: its self.payroll_period object
    now,         \* timezone.now()
    last,        \* the last step, when it was a Processor call: operation, arguments, exception
    processed,   \* the entries and totals the last successful process_all left, while the
                 \* workforce and the entries have not been changed from outside since
    tax_tables,  \* the TaxTable rows as stored
    calculator,  \* per PayrollProcessor instance: the config of its self.calculator
    calc_call    \* the last call made on a PayrollCalculator directly: arguments and result

vars == <<db_period, entries, users, mem, now, last, processed, tax_tables, calculator, calc_call>>

\* ------------------------------------------------------------ calculator.py
ScaleRate == 10 * 1000

DEFAULT_CONFIG ==
    [ band_1_limit |-> 2400000, band_1_rate |-> 1000,
      band_2_limit |-> 3233300, band_2_rate |-> 2500,
      band_3_limit |-> 50000000, band_3_rate |-> 3000,
      band_4_limit |-> 80000000, band_4_rate |-> 3250,
      band_5_rate |-> 3500,
      personal_relief |-> 240000,
      insurance_relief_rate |-> 1500,
      insurance_relief_max |-> 500000,
      disability_exemption |-> 15000000,
      nssf_tier1_limit |-> 700000, nssf_tier1_rate |-> 600,
      nssf_tier2_limit |-> 3600000, nssf_tier2_rate |-> 600,
      sha_rate |-> 275,
      housing_levy_rate |-> 150,
      pension_max_deduction |-> 2000000,
      mortgage_interest_max |-> 2500000 ]

\* PayrollCalculator.__init__: self.config = {**DEFAULT_CONFIG, **(config or {})}
PayrollCalculator(config) ==
    [ k \in DOMAIN DEFAULT_CONFIG \cup DOMAIN config |->
        IF k \in DOMAIN config THEN config[k] ELSE DEFAULT_CONFIG[k] ]

\* min(value, cap) left out: the value itself
Min_left_out(a, b) == a

Min(a, b) == IF a <= b THEN a ELSE b
\* max(value, Decimal('0')) left out: the value itself
Max_left_out(a, b) == a

Max(a, b) == IF a >= b THEN a ELSE b
Abs(a) == IF a < 0 THEN 0 - a ELSE a

\* value.quantize(Decimal('0.01'), rounding=ROUND_HALF_UP) of the product
\* amount * rate: amount in cents, rate in 1/10000, the result in cents; ROUND_HALF_UP
\* rounds a tie away from zero. The product is split so that it stays in range.
RoundMul(amount, rate) ==
    LET a == Abs(amount)
        q == a \div ScaleRate
        r == a % ScaleRate
        m == q * rate + ((r * rate + (ScaleRate \div 2)) \div ScaleRate)
    IN IF amount < 0 THEN 0 - m ELSE m

\* calculate_nssf with tier II taken on gross_pay - tier1_limit, without min(, tier2_limit)
calculate_nssf_uncapped(config, gross_pay) ==
    LET tier1_pensionable == Min(gross_pay, config.nssf_tier1_limit)
        tier1_contribution == RoundMul(tier1_pensionable, config.nssf_tier1_rate)
        tier2_contribution ==
            IF gross_pay > config.nssf_tier1_limit
            THEN RoundMul(gross_pay - config.nssf_tier1_limit, config.nssf_tier2_rate)
            ELSE 0
    IN tier1_contribution + tier2_contribution

calculate_nssf(config, gross_pay) ==
    LET tier1_pensionable == Min(gross_pay, config.nssf_tier1_limit)
        tier1_contribution == RoundMul(tier1_pensionable, config.nssf_tier1_rate)
        tier2_contribution ==
            IF gross_pay > config.nssf_tier1_limit
            THEN RoundMul(Min(gross_pay, config.nssf_tier2_limit) - config.nssf_tier1_limit,
                          config.nssf_tier2_rate)
            ELSE 0
    IN tier1_contribution + tier2_contribution

calculate_sha(config, gross_pay) == RoundMul(gross_pay, config.sha_rate)

calculate_housing_levy(config, gross_pay) == RoundMul(gross_pay, config.housing_levy_rate)

\* the bands of calculate_tax: limit {} is the top band's None
TaxBands(config) ==
    << [limit |-> Some(config.band_1_limit), rate |-> config.band_1_rate],
       [limit |-> Some(config.band_2_limit), rate |-> config.band_2_rate],
       [limit |-> Some(config.band_3_limit), rate |-> config.band_3_rate],
       [limit |-> Some(config.band_4_limit), rate |-> config.band_4_rate],
       [limit |-> Null, rate |-> config.band_5_rate] >>

TheOne(S) == CHOOSE x \in S : TRUE

\* the loop of calculate_tax without previous_limit = limit: every band's width is
\* taken from zero
RECURSIVE TaxLoop_widths_from_zero(_, _, _, _, _)
TaxLoop_widths_from_zero(bands, i, tax, remaining, previous_limit) ==
    IF i > Len(bands) \/ remaining <= 0 THEN tax
    ELSE LET limit == bands[i].limit
             band_income == IF limit = Null THEN remaining
                            ELSE Min(remaining, TheOne(limit) - previous_limit)
             band_tax == RoundMul(band_income, bands[i].rate)
         IN TaxLoop_widths_from_zero(bands, i + 1, tax + band_tax, remaining - band_income,
                                     previous_limit)

RECURSIVE TaxLoop(_, _, _, _, _)
TaxLoop(bands, i, tax, remaining, previous_limit) ==
    IF i > Len(bands) \/ remaining <= 0 THEN tax
    ELSE LET limit == bands[i].limit
             band_income == IF limit = Null THEN remaining
                            ELSE Min(remaining, TheOne(limit) - previous_limit)
             band_tax == RoundMul(band_income, bands[i].rate)
         IN TaxLoop(bands, i + 1, tax + band_tax, remaining - band_income,
                    IF limit = Null THEN previous_limit ELSE TheOne(limit))

calculate_tax(config, taxable_income) ==
    IF taxable_income <= 0 THEN 0
    ELSE TaxLoop(TaxBands(config), 1, 0, taxable_income, 0)

\* calculate_insurance_relief returning relief in place of min(relief, max_relief)
calculate_insurance_relief_uncapped(config, insurance_premium) ==
    RoundMul(insurance_premium, config.insurance_relief_rate)

calculate_insurance_relief(config, insurance_premium) ==
    Min(RoundMul(insurance_premium, config.insurance_relief_rate), config.insurance_relief_max)

\* A Python dict, in insertion order: a sequence of [key, value] items.
RECURSIVE DictSet(_, _, _)
DictSet(d, k, v) ==
    IF d = <<>> THEN << [key |-> k, value |-> v] >>
    ELSE IF Head(d).key = k THEN << [key |-> k, value |-> v] >> \o Tail(d)
    ELSE << Head(d) >> \o DictSet(Tail(d), k, v)

RECURSIVE SumAllowances(_, _)
SumAllowances(items, taxable) ==
    IF items = <<>> THEN 0
    ELSE (IF Head(items).value.taxable = taxable THEN Head(items).value.amount ELSE 0)
         + SumAllowances(Tail(items), taxable)

\* the bucket calculate puts a deduction type in (lines 358-363)
DeductionBucket(deduction_type) ==
    IF deduction_type = "loan" THEN "loan"
    ELSE IF deduction_type = "sacco" THEN "sacco"
    ELSE "other"

RECURSIVE SumDeductions(_, _)
SumDeductions(items, bucket) ==
    IF items = <<>> THEN 0
    ELSE (IF DeductionBucket(Head(items).value.type) = bucket
          THEN Head(items).value.amount ELSE 0)
         + SumDeductions(Tail(items), bucket)

\* calculate with net pay floored at zero: max(gross_pay - total_deductions, 0)
calculate_flooring_net_pay(config, basic_salary, allowances, deductions, pension_contribution, mortgage_interest, insurance_premium, has_disability) ==
    LET taxable_allowances == SumAllowances(allowances, TRUE)
        non_taxable_allowances == SumAllowances(allowances, FALSE)
        gross_pay == basic_salary + taxable_allowances + non_taxable_allowances
        nssf == calculate_nssf(config, gross_pay)
        pension_deductible == Min(pension_contribution, config.pension_max_deduction)
        owner_occupied_interest == Min(mortgage_interest, config.mortgage_interest_max)
        taxable_income == Max(gross_pay - nssf - pension_deductible - owner_occupied_interest, 0)
        tax_charged == calculate_tax(config, taxable_income)
        personal_relief == config.personal_relief
        insurance_relief == calculate_insurance_relief(config, insurance_premium)
        disability_exemption == IF has_disability THEN config.disability_exemption ELSE 0
        total_relief == personal_relief + insurance_relief + disability_exemption
        paye == Max(tax_charged - total_relief, 0)
        sha == calculate_sha(config, gross_pay)
        housing_levy == calculate_housing_levy(config, gross_pay)
        loan_deductions == SumDeductions(deductions, "loan")
        sacco_deductions == SumDeductions(deductions, "sacco")
        other_deductions_total == SumDeductions(deductions, "other")
        total_deductions == paye + nssf + sha + housing_levy
                            + loan_deductions + sacco_deductions + other_deductions_total
        net_pay == Max(gross_pay - total_deductions, 0)
    IN [ basic_salary |-> basic_salary,
         taxable_allowances |-> taxable_allowances,
         non_taxable_allowances |-> non_taxable_allowances,
         gross_pay |-> gross_pay,
         pension_contribution |-> pension_contribution,
         pension_deductible |-> pension_deductible,
         owner_occupied_interest |-> owner_occupied_interest,
         taxable_income |-> taxable_income,
         tax_charged |-> tax_charged,
         personal_relief |-> personal_relief,
         insurance_relief |-> insurance_relief,
         disability_exemption |-> disability_exemption,
         paye |-> paye,
         nssf |-> nssf,
         sha |-> sha,
         housing_levy |-> housing_levy,
         loan_deductions |-> loan_deductions,
         sacco_deductions |-> sacco_deductions,
         other_deductions |-> other_deductions_total,
         total_deductions |-> total_deductions,
         net_pay |-> net_pay,
         allowance_details |-> allowances,
         deduction_details |-> deductions ]

\* PayrollCalculator.calculate; every amount has two decimals, so the closing _round
\* calls of lines 382-407 leave the cents as they are.
calculate(config, basic_salary, allowances, deductions, pension_contribution, mortgage_interest, insurance_premium, has_disability) ==
    LET taxable_allowances == SumAllowances(allowances, TRUE)
        non_taxable_allowances == SumAllowances(allowances, FALSE)
        gross_pay == basic_salary + taxable_allowances + non_taxable_allowances
        nssf == calculate_nssf(config, gross_pay)
        pension_deductible == Min(pension_contribution, config.pension_max_deduction)
        owner_occupied_interest == Min(mortgage_interest, config.mortgage_interest_max)
        taxable_income == Max(gross_pay - nssf - pension_deductible - owner_occupied_interest, 0)
        tax_charged == calculate_tax(config, taxable_income)
        personal_relief == config.personal_relief
        insurance_relief == calculate_insurance_relief(config, insurance_premium)
        disability_exemption == IF has_disability THEN config.disability_exemption ELSE 0
        total_relief == personal_relief + insurance_relief + disability_exemption
        paye == Max(tax_charged - total_relief, 0)
        sha == calculate_sha(config, gross_pay)
        housing_levy == calculate_housing_levy(config, gross_pay)
        loan_deductions == SumDeductions(deductions, "loan")
        sacco_deductions == SumDeductions(deductions, "sacco")
        other_deductions_total == SumDeductions(deductions, "other")
        total_deductions == paye + nssf + sha + housing_levy
                            + loan_deductions + sacco_deductions + other_deductions_total
        net_pay == gross_pay - total_deductions
    IN [ basic_salary |-> basic_salary,
         taxable_allowances |-> taxable_allowances,
         non_taxable_allowances |-> non_taxable_allowances,
         gross_pay |-> gross_pay,
         pension_contribution |-> pension_contribution,
         pension_deductible |-> pension_deductible,
         owner_occupied_interest |-> owner_occupied_interest,
         taxable_income |-> taxable_income,
         tax_charged |-> tax_charged,
         personal_relief |-> personal_relief,
         insurance_relief |-> insurance_relief,
         disability_exemption |-> disability_exemption,
         paye |-> paye,
         nssf |-> nssf,
         sha |-> sha,
         housing_levy |-> housing_levy,
         loan_deductions |-> loan_deductions,
         sacco_deductions |-> sacco_deductions,
         other_deductions |-> other_deductions_total,
         total_deductions |-> total_deductions,
         net_pay |-> net_pay,
         allowance_details |-> allowances,
         deduction_details |-> deductions ]

\* ---------------------------------------------------- employees/models.py
\* EmployeeAllowance rows, in Meta.ordering (employee, allowance_type)
EmployeeAllowanceRows ==
    << [employee |-> "e1", allowance_type |-> "house", name |-> "", amount |-> 1000000,
        is_taxable |-> TRUE, effective_from |-> 1, effective_to |-> Null],
       [employee |-> "e1", allowance_type |-> "other", name |-> "Fuel", amount |-> 200000,
        is_taxable |-> FALSE, effective_from |-> 1, effective_to |-> Some(2)],
       [employee |-> "e2", allowance_type |-> "other", name |-> "Fuel", amount |-> 300000,
        is_taxable |-> TRUE, effective_from |-> 2, effective_to |-> Null],
       [employee |-> "e2", allowance_type |-> "other", name |-> "Fuel", amount |-> 100000,
        is_taxable |-> FALSE, effective_from |-> 3, effective_to |-> Some(4)] >>

\* EmployeeDeduction rows, in Meta.ordering (employee, deduction_type)
EmployeeDeductionRows ==
    << [employee |-> "e1", deduction_type |-> "loan", name |-> "Car loan", amount |-> 500000,
        is_pretax |-> FALSE, effective_from |-> 1, effective_to |-> Null],
       [employee |-> "e1", deduction_type |-> "loan", name |-> "Car loan", amount |-> 200000,
        is_pretax |-> FALSE, effective_from |-> 2, effective_to |-> Null],
       [employee |-> "e1", deduction_type |-> "pension", name |-> "Pension", amount |-> 108000,
        is_pretax |-> TRUE, effective_from |-> 1, effective_to |-> Null],
       [employee |-> "e2", deduction_type |-> "insurance", name |-> "Cover", amount |-> 5000000,
        is_pretax |-> FALSE, effective_from |-> 1, effective_to |-> Null],
       [employee |-> "e2", deduction_type |-> "sacco", name |-> "Sacco", amount |-> 250000,
        is_pretax |-> FALSE, effective_from |-> 4, effective_to |-> Null] >>

\* AllowanceType.choices: get_allowance_type_display
AllowanceTypeDisplay(allowance_type) ==
    CASE allowance_type = "house" -> "House Allowance"
      [] allowance_type = "transport" -> "Transport Allowance"
      [] allowance_type = "medical" -> "Medical Allowance"
      [] allowance_type = "airtime" -> "Airtime Allowance"
      [] allowance_type = "lunch" -> "Lunch Allowance"
      [] allowance_type = "hardship" -> "Hardship Allowance"
      [] allowance_type = "responsibility" -> "Responsibility Allowance"
      [] OTHER -> "Other Allowance"

\* effective_from__lte=period_date, and effective_to null or effective_to__gte=period_date
InWindow(row, period_date) ==
    /\ row.effective_from <= period_date
    /\ (row.effective_to = Null \/ TheOne(row.effective_to) >= period_date)

\* ------------------------------------------------------ payroll/models.py
Statuses == {"draft", "pending_hr", "pending_mgmt", "approved", "paid", "cancelled"}

\* a PayrollPeriod as objects.create leaves it: the field defaults, the name set by save()
NewPeriod ==
    [ name |-> PeriodName,
      status |-> "draft",
      prepared_by |-> Null, prepared_at |-> Null,
      hr_approved_by |-> Null, hr_approved_at |-> Null, hr_comments |-> <<>>,
      mgmt_approved_by |-> Null, mgmt_approved_at |-> Null, mgmt_comments |-> <<>>,
      total_gross |-> 0, total_net |-> 0, total_paye |-> 0,
      total_nssf |-> 0, total_sha |-> 0, total_housing_levy |-> 0 ]

\* PayrollPeriod.save: the row written for the object
save(period) ==
    IF period.name = <<>> THEN [period EXCEPT !.name = PeriodName] ELSE period

RECURSIVE SumField(_, _)
SumField(rows, f) ==
    IF rows = <<>> THEN 0 ELSE Head(rows)[f] + SumField(Tail(rows), f)

\* calculate_totals with += in place of =: each total grows by the entries' sum
calculate_totals_accumulating(period, rows) ==
    [period EXCEPT !.total_gross = @ + SumField(rows, "gross_pay"),
                   !.total_net = @ + SumField(rows, "net_pay"),
                   !.total_paye = @ + SumField(rows, "paye"),
                   !.total_nssf = @ + SumField(rows, "nssf"),
                   !.total_sha = @ + SumField(rows, "sha"),
                   !.total_housing_levy = @ + SumField(rows, "housing_levy")]

\* PayrollPeriod.calculate_totals, up to its save(): the object with its totals set from
\* the stored entries
calculate_totals(period, rows) ==
    [period EXCEPT !.total_gross = SumField(rows, "gross_pay"),
                   !.total_net = SumField(rows, "net_pay"),
                   !.total_paye = SumField(rows, "paye"),
                   !.total_nssf = SumField(rows, "nssf"),
                   !.total_sha = SumField(rows, "sha"),
                   !.total_housing_levy = SumField(rows, "housing_levy")]

\* the indices of the rows of an employee (the period is the one period modelled)
RowsOf(rows, employee) == {i \in 1..Len(rows) : rows[i].employee = employee}

\* a PayrollEntry row of the period for an employee, its columns set from a result
EntryRow(employee, defaults) ==
    [ employee |-> employee,
      basic_salary |-> defaults.basic_salary,
      taxable_allowances |-> defaults.taxable_allowances,
      non_taxable_allowances |-> defaults.non_taxable_allowances,
      gross_pay |-> defaults.gross_pay,
      pension_contribution |-> defaults.pension_contribution,
      owner_occupied_interest |-> defaults.owner_occupied_interest,
      taxable_income |-> defaults.taxable_income,
      tax_charged |-> defaults.tax_charged,
      personal_relief |-> defaults.personal_relief,
      insurance_relief |-> defaults.insurance_relief,
      disability_exemption |-> defaults.disability_exemption,
      paye |-> defaults.paye,
      nssf |-> defaults.nssf,
      sha |-> defaults.sha,
      housing_levy |-> defaults.housing_levy,
      loan_deductions |-> defaults.loan_deductions,
      sacco_deductions |-> defaults.sacco_deductions,
      other_deductions |-> defaults.other_deductions,
      total_deductions |-> defaults.total_deductions,
      net_pay |-> defaults.net_pay,
      allowance_details |-> defaults.allowance_details,
      deduction_details |-> defaults.deduction_details ]

\* PayrollEntry.Meta.unique_together: whether a new row for the employee is accepted
unique_together(rows, employee) == RowsOf(rows, employee) = {}

\* PayrollEntry.objects.update_or_create(payroll_period, employee, defaults)
update_or_create(rows, employee, defaults) ==
    LET found == RowsOf(rows, employee)
        row == EntryRow(employee, defaults)
    IN IF found = {}
       THEN IF unique_together(rows, employee)
            THEN [raised |-> "", rows |-> Append(rows, row)]
            ELSE [raised |-> "IntegrityError", rows |-> rows]
       ELSE IF Cardinality(found) = 1
            THEN [raised |-> "", rows |-> [rows EXCEPT ![TheOne(found)] = row]]
       ELSE [raised |-> "MultipleObjectsReturned", rows |-> rows]

\* the columns of TaxTable that _get_calculator copies: the keys of DEFAULT_CONFIG
TaxTableColumns == DOMAIN DEFAULT_CONFIG

\* a TaxTable row: its validity window, its is_active flag and its rate columns, which
\* hold the field defaults (the values of DEFAULT_CONFIG) where changed does not set them
TaxTable(id, effective_from, effective_to, is_active, changed) ==
    [ f \in TaxTableColumns \cup {"id", "effective_from", "effective_to", "is_active"} |->
        CASE f = "id" -> id
          [] f = "effective_from" -> effective_from
          [] f = "effective_to" -> effective_to
          [] f = "is_active" -> is_active
          [] OTHER -> IF f \in DOMAIN changed THEN changed[f] ELSE DEFAULT_CONFIG[f] ]

\* the rows TaxTableAdmin is used to store
TaxTableRows ==
    { TaxTable("t1", 1, Null, TRUE, <<>>),
      TaxTable("t2", 2, Some(3), TRUE, [personal_relief |-> 300000]),
      TaxTable("t3", 2, Null, TRUE, [sha_rate |-> 300]),
      TaxTable("t4", 4, Null, FALSE, [housing_levy_rate |-> 200]) }

\* get_active with order_by('effective_from') in place of Meta.ordering's '-effective_from'
get_active_oldest_first(tables, date) ==
    LET matching == { t \in tables :
                        /\ t.is_active
                        /\ t.effective_from <= date
                        /\ (t.effective_to = Null \/ TheOne(t.effective_to) >= date) }
    IN { t \in matching : \A u \in matching : u.effective_from >= t.effective_from }

\* TaxTable.get_active(date): the rows that first() can return, {} when it returns None.
\* Meta.ordering is ['-effective_from'] alone, so among matching rows of one
\* effective_from the database is free to put any of them first.
get_active(tables, date) ==
    LET matching == { t \in tables :
                        /\ t.is_active
                        /\ t.effective_from <= date
                        /\ (t.effective_to = Null \/ TheOne(t.effective_to) >= date) }
    IN { t \in matching : \A u \in matching : u.effective_from <= t.effective_from }

\* ------------------------------------------------- services/processor.py
\* the names processor.py binds at module level (its imports, lines 5-15, and its class)
ModuleNames ==
    { "Decimal", "List", "Optional", "timezone", "transaction", "logging", "User",
      "EmployeeAllowance", "EmployeeDeduction", "PayrollPeriod", "PayrollEntry", "TaxTable",
      "PayrollCalculator", "logger", "PayrollProcessor" }

\* what a method returns: raised is "" or the exception's class
Returned(v) == [raised |-> "", value |-> v]
Raised(e) == [raised |-> e, value |-> <<>>]

\* _get_calculator: the configs the new calculator can hold. TaxTable.get_active() is
\* called without a date, so the date is timezone.now().date(); the clock counts in the
\* unit of the date columns. Without a row the calculator is PayrollCalculator().
_get_calculator(tables, today) ==
    LET found == get_active(tables, today)
    IN IF found = {} THEN { PayrollCalculator(<<>>) }
       ELSE { PayrollCalculator([k \in TaxTableColumns |-> tax_table[k]]) : tax_table \in found }

\* User.objects.filter(employment_status=ACTIVE, is_active=True), in User's Meta.ordering
get_active_employees(people) ==
    SelectSeq(EmployeeOrder,
              LAMBDA e : people[e].employment_status = "active" /\ people[e].is_active)

RECURSIVE AllowanceDict(_, _)
AllowanceDict(rows, result) ==
    IF rows = <<>> THEN result
    ELSE LET allowance == Head(rows)
             name == IF allowance.name # "" THEN allowance.name
                     ELSE AllowanceTypeDisplay(allowance.allowance_type)
         IN AllowanceDict(Tail(rows),
                          DictSet(result, name,
                                  [amount |-> allowance.amount, taxable |-> allowance.is_taxable]))

\* get_employee_allowances: the second filter's argument is models.Q(...), and the method
\* has no local import of models, so the name is looked up among the module's names
get_employee_allowances(employee, period_date) ==
    IF "models" \notin ModuleNames THEN Raised("NameError")
    ELSE Returned(AllowanceDict(
             SelectSeq(EmployeeAllowanceRows,
                       LAMBDA r : r.employee = employee /\ InWindow(r, period_date)),
             <<>>))

RECURSIVE DeductionDict(_, _)
DeductionDict(rows, result) ==
    IF rows = <<>> THEN result
    ELSE LET deduction == Head(rows)
         IN DeductionDict(Tail(rows),
                          DictSet(result, deduction.name,
                                  [amount |-> deduction.amount, type |-> deduction.deduction_type]))

\* get_employee_deductions: imports models locally (line 111)
get_employee_deductions(employee, period_date) ==
    Returned(DeductionDict(
        SelectSeq(EmployeeDeductionRows,
                  LAMBDA r : r.employee = employee /\ InWindow(r, period_date)),
        <<>>))

\* queryset.first(): the amount of the first row, or Decimal('0')
FirstAmount(rows) == IF rows = <<>> THEN 0 ELSE Head(rows).amount

get_pension_contribution(employee, period_date) ==
    Returned(FirstAmount(
        SelectSeq(EmployeeDeductionRows,
                  LAMBDA r : /\ r.employee = employee
                             /\ r.deduction_type = "pension"
                             /\ r.is_pretax
                             /\ InWindow(r, period_date))))

get_insurance_premium(employee, period_date) ==
    Returned(FirstAmount(
        SelectSeq(EmployeeDeductionRows,
                  LAMBDA r : /\ r.employee = employee
                             /\ r.deduction_type = "insurance"
                             /\ InWindow(r, period_date))))

\* process_employee: the entry rows after it, or the exception that left them as they were
process_employee(config, people, employee, rows) ==
    LET period_date == PeriodDate
        allowances == get_employee_allowances(employee, period_date)
        deductions == get_employee_deductions(employee, period_date)
        pension == get_pension_contribution(employee, period_date)
        insurance == get_insurance_premium(employee, period_date)
    IN IF allowances.raised # "" THEN [raised |-> allowances.raised, rows |-> rows]
       ELSE update_or_create(rows, employee,
                calculate(config, people[employee].basic_salary, allowances.value,
                          deductions.value, pension.value, 0, insurance.value,
                          people[employee].has_disability))

\* the loop of process_all (lines 238-243): the first exception ends it
RECURSIVE ProcessEmployees(_, _, _, _)
ProcessEmployees(config, people, employees, rows) ==
    IF employees = <<>> THEN [raised |-> "", rows |-> rows]
    ELSE LET one == process_employee(config, people, Head(employees), rows)
         IN IF one.raised # "" THEN one
            ELSE ProcessEmployees(config, people, Tail(employees), one.rows)

\* What a Processor call leaves: the exception raised ("" for none), the Processor's
\* period object, the period row and the entry rows as committed (transaction.atomic
\* rolls the rows back on an exception; the object in memory is not rolled back).
Outcome(raised, period, row, rows) ==
    [raised |-> raised, period |-> period, db |-> row, rows |-> rows]

\* process_all without its call of calculate_totals: the stamped period is saved as it is
process_all_without_totals(period, stored, rows, config, people, prepared_by, t) ==
    LET run == ProcessEmployees(config, people, get_active_employees(people), rows)
    IN IF run.raised # "" THEN Outcome(run.raised, period, stored, rows)
       ELSE LET stamped == [period EXCEPT !.prepared_by = Some(prepared_by),
                                          !.prepared_at = Some(t),
                                          !.status = "pending_hr"]
            IN Outcome("", stamped, save(stamped), run.rows)

\* process_all with the period stamped before the loop over the employees: an exception
\* in the loop leaves the stamps on the Processor's object
process_all_stamping_first(period, stored, rows, config, people, prepared_by, t) ==
    LET stamped == [period EXCEPT !.prepared_by = Some(prepared_by),
                                  !.prepared_at = Some(t),
                                  !.status = "pending_hr"]
        run == ProcessEmployees(config, people, get_active_employees(people), rows)
    IN IF run.raised # "" THEN Outcome(run.raised, stamped, stored, rows)
       ELSE LET totalled == calculate_totals(stamped, run.rows)
            IN Outcome("", totalled, save(totalled), run.rows)

process_all(period, stored, rows, config, people, prepared_by, t) ==
    LET run == ProcessEmployees(config, people, get_active_employees(people), rows)
    IN IF run.raised # "" THEN Outcome(run.raised, period, stored, rows)
       ELSE LET stamped == [period EXCEPT !.prepared_by = Some(prepared_by),
                                          !.prepared_at = Some(t),
                                          !.status = "pending_hr"]
                totalled == calculate_totals(stamped, run.rows)
            IN Outcome("", totalled, save(totalled), run.rows)

\* approve_hr without its status check
approve_hr_unchecked(period, stored, rows, approved_by, comments, t) ==
    LET approved == [period EXCEPT !.hr_approved_by = Some(approved_by),
                                   !.hr_approved_at = Some(t),
                                   !.hr_comments = comments,
                                   !.status = "pending_mgmt"]
    IN Outcome("", approved, save(approved), rows)

\* approve_hr with the status check after the assignments: the exception leaves the
\* stamps on the Processor's object
approve_hr_stamping_first(period, stored, rows, approved_by, comments, t) ==
    LET approved == [period EXCEPT !.hr_approved_by = Some(approved_by),
                                   !.hr_approved_at = Some(t),
                                   !.hr_comments = comments,
                                   !.status = "pending_mgmt"]
    IN IF period.status # "pending_hr" THEN Outcome("ValueError", approved, stored, rows)
       ELSE Outcome("", approved, save(approved), rows)

approve_hr(period, stored, rows, approved_by, comments, t) ==
    IF period.status # "pending_hr" THEN Outcome("ValueError", period, stored, rows)
    ELSE LET approved == [period EXCEPT !.hr_approved_by = Some(approved_by),
                                        !.hr_approved_at = Some(t),
                                        !.hr_comments = comments,
                                        !.status = "pending_mgmt"]
         IN Outcome("", approved, save(approved), rows)

\* approve_management checking for pending_hr in place of pending_mgmt
approve_management_wrong_status(period, stored, rows, approved_by, comments, t) ==
    IF period.status # "pending_hr" THEN Outcome("ValueError", period, stored, rows)
    ELSE LET approved == [period EXCEPT !.mgmt_approved_by = Some(approved_by),
                                        !.mgmt_approved_at = Some(t),
                                        !.mgmt_comments = comments,
                                        !.status = "approved"]
         IN Outcome("", approved, save(approved), rows)

approve_management(period, stored, rows, approved_by, comments, t) ==
    IF period.status # "pending_mgmt" THEN Outcome("ValueError", period, stored, rows)
    ELSE LET approved == [period EXCEPT !.mgmt_approved_by = Some(approved_by),
                                        !.mgmt_approved_at = Some(t),
                                        !.mgmt_comments = comments,
                                        !.status = "approved"]
         IN Outcome("", approved, save(approved), rows)

\* f"Rejected by {rejected_by.get_full_name()}: {comments}"
RejectionNote(rejected_by, comments) == << "Rejected by ", rejected_by, ": " >> \o comments

\* reject without the assignments that clear the HR stamp
reject_keeping_hr_stamp(period, stored, rows, rejected_by, comments) ==
    LET cleared == [period EXCEPT !.status = "draft",
                                  !.mgmt_approved_by = Null,
                                  !.mgmt_approved_at = Null]
        noted == [cleared EXCEPT !.hr_comments =
                     IF period.hr_comments # <<>>
                     THEN period.hr_comments \o << "\n\n" >> \o RejectionNote(rejected_by, comments)
                     ELSE RejectionNote(rejected_by, comments)]
    IN Outcome("", noted, save(noted), rows)

\* reject with hr_comments = note in place of the concatenation
reject_overwriting(period, stored, rows, rejected_by, comments) ==
    LET cleared == [period EXCEPT !.status = "draft",
                                  !.hr_approved_by = Null,
                                  !.hr_approved_at = Null,
                                  !.mgmt_approved_by = Null,
                                  !.mgmt_approved_at = Null]
        noted == [cleared EXCEPT !.hr_comments = RejectionNote(rejected_by, comments)]
    IN Outcome("", noted, save(noted), rows)

reject(period, stored, rows, rejected_by, comments) ==
    LET cleared == [period EXCEPT !.status = "draft",
                                  !.hr_approved_by = Null,
                                  !.hr_approved_at = Null,
                                  !.mgmt_approved_by = Null,
                                  !.mgmt_approved_at = Null]
        noted == [cleared EXCEPT !.hr_comments =
                     IF period.hr_comments # <<>>
                     THEN period.hr_comments \o << "\n\n" >> \o RejectionNote(rejected_by, comments)
                     ELSE RejectionNote(rejected_by, comments)]
    IN Outcome("", noted, save(noted), rows)

\* ------------------------------------------------------------ the system
\* the six totals of a period row
Totals(period) ==
    << period.total_gross, period.total_net, period.total_paye,
       period.total_nssf, period.total_sha, period.total_housing_levy >>

\* no Processor call was the last step
NoCall ==
    [op |-> "none", proc |-> "", actor |-> "", comments |-> <<>>, raised |-> "", repeat |-> FALSE]

\* the record of a Processor call; the arguments are kept for a call that returned, and
\* repeat marks a process_all that returned on inputs an earlier one had processed
Call(op, p, actor, comments, raised) ==
    IF raised = ""
    THEN [op |-> op, proc |-> p, actor |-> actor, comments |-> comments, raised |-> "",
          repeat |-> (op = "process_all" /\ processed # Null)]
    ELSE [op |-> op, proc |-> p, actor |-> "", comments |-> <<>>, raised |-> raised,
          repeat |-> FALSE]

\* no call was made on a calculator directly
NoCalculation == [op |-> "none", config |-> <<>>, args |-> <<>>, raised |-> "", result |-> <<>>]

Init ==
    /\ db_period = NewPeriod
    /\ entries = <<>>
    /\ users = [e \in Employees |->
                  [employment_status |-> "active", is_active |-> TRUE,
                   basic_salary |-> 5000000, has_disability |-> (e = "e2")]]
    /\ mem = [p \in Procs |-> NewPeriod]
    /\ now = 0
    /\ last = NoCall
    /\ processed = Null
    /\ tax_tables = {}
    /\ calculator = [p \in Procs |-> PayrollCalculator(<<>>)]
    /\ calc_call = NoCalculation

\* PayrollProcessor(payroll_period) on the period as loaded from the database
NewProcessor(p) ==
    /\ \E config \in _get_calculator(tax_tables, now) :
          /\ <<mem[p], calculator[p]>> # <<db_period, config>>
          /\ mem' = [mem EXCEPT ![p] = db_period]
          /\ calculator' = [calculator EXCEPT ![p] = config]
    /\ last' = NoCall
    /\ UNCHANGED <<db_period, entries, users, now, processed, tax_tables, calc_call>>

\* the effect of a call: the Processor's object, the committed rows, the record of the call
Apply(p, op, actor, comments, out) ==
    /\ mem' = [mem EXCEPT ![p] = out.period]
    /\ db_period' = out.db
    /\ entries' = out.rows
    /\ last' = Call(op, p, actor, comments, out.raised)
    /\ processed' = IF op = "process_all" /\ out.raised = ""
                    THEN Some([rows |-> out.rows, totals |-> Totals(out.db)])
                    ELSE processed
    /\ UNCHANGED <<users, now, tax_tables, calc_call>>

\* process_all calling self._get_calculator() again at the start of the run
ProcessAll_resolving(p, actor) ==
    /\ p \in DOMAIN mem
    /\ \E config \in _get_calculator(tax_tables, now) :
          /\ Apply(p, "process_all", actor, <<>>,
                   process_all(mem[p], db_period, entries, config, users, actor, now))
          /\ calculator' = [calculator EXCEPT ![p] = config]

ProcessAll(p, actor) ==
    /\ p \in DOMAIN mem
    /\ Apply(p, "process_all", actor, <<>>,
             process_all(mem[p], db_period, entries, calculator[p], users, actor, now))
    /\ calculator' = calculator

ApproveHR(p, actor, comments) ==
    /\ p \in DOMAIN mem
    /\ Apply(p, "approve_hr", actor, comments,
             approve_hr(mem[p], db_period, entries, actor, comments, now))
    /\ calculator' = calculator

ApproveManagement(p, actor, comments) ==
    /\ p \in DOMAIN mem
    /\ Apply(p, "approve_management", actor, comments,
             approve_management(mem[p], db_period, entries, actor, comments, now))
    /\ calculator' = calculator

Reject(p, actor, comments) ==
    /\ Len(mem[p].hr_comments) <= MaxTrail
    /\ Apply(p, "reject", actor, comments,
             reject(mem[p], db_period, entries, actor, comments))
    /\ calculator' = calculator

\* the payment step outside the Processor: an approved period is marked paid
MarkPaid ==
    /\ db_period.status = "approved"
    /\ db_period' = [db_period EXCEPT !.status = "paid"]
    /\ last' = NoCall
    /\ UNCHANGED <<entries, users, mem, now, processed, tax_tables, calculator, calc_call>>

\* PayrollEntryAdmin's add form: a row typed in by hand, refused when the employee
\* already has one in the period
AdminEntryValues ==
    { calculate(DEFAULT_CONFIG, 5000000, <<>>, <<>>, 0, 0, 0, FALSE) }

AdminAddEntry(e, values) ==
    /\ unique_together(entries, e)
    /\ entries' = Append(entries, EntryRow(e, values))
    /\ last' = NoCall
    /\ processed' = Null
    /\ UNCHANGED <<db_period, users, mem, now, tax_tables, calculator, calc_call>>

\* the workforce directory changes an employee's employment status
SetEmploymentStatus(e, status) ==
    /\ users[e].employment_status # status
    /\ users' = [users EXCEPT ![e].employment_status = status]
    /\ last' = NoCall
    /\ processed' = Null
    /\ UNCHANGED <<db_period, entries, mem, now, tax_tables, calculator, calc_call>>

Tick ==
    /\ now < MaxTime
    /\ now' = now + 1
    /\ last' = NoCall
    /\ UNCHANGED <<db_period, entries, users, mem, processed, tax_tables, calculator, calc_call>>

Next ==
    \/ \E p \in Procs : NewProcessor(p)
    \/ \E p \in Procs, a \in Actors : ProcessAll(p, a)
    \/ \E p \in Procs, a \in Actors, c \in HRComments : ApproveHR(p, a, c)
    \/ \E p \in Procs, a \in Actors, c \in MgmtComments : ApproveManagement(p, a, c)
    \/ \E p \in Procs, a \in Actors, c \in RejectComments : Reject(p, a, c)
    \/ MarkPaid
    \/ \E e \in Employees, values \in AdminEntryValues : AdminAddEntry(e, values)
    \/ \E e \in Employees, st \in {"active", "terminated"} : SetEmploymentStatus(e, st)
    \/ Tick

Spec == Init /\ [][Next]_vars

\* ------------------------------------------------- calls on a PayrollCalculator
\* the configs a PayrollCalculator is constructed with: none, or a TaxTable row's columns
CalculatorConfigs ==
    { PayrollCalculator(<<>>) }
    \cup { PayrollCalculator([k \in TaxTableColumns |-> t[k]]) : t \in TaxTableRows }

\* The calculator keeps nothing between calls (self.config alone, set once), so each
\* behaviour makes one call, from the state in which none was made.
\* the arguments the methods are called with, in cents
GrossPays ==
    { 0 - 100000, 0, 1, 8, 9, 500000, 700000, 700001, 700009, 3599999, 3600000, 3600001,
      5000000, 10000000 }

TaxableIncomes ==
    { 0 - 1, 0, 1, 5, 2000000, 2400000, 2400005, 3000000, 3233300, 4000000, 4976000,
      50000000, 50000001, 80000000, 123456789 }

BasicSalaries == { 0 - 100000, 0, 2000000, 5000000, 5300000, 51728815, 100000000 }

AllowanceInputs ==
    { <<>>,
      << [key |-> "House Allowance", value |-> [amount |-> 1000000, taxable |-> TRUE]],
         [key |-> "Fuel", value |-> [amount |-> 200000, taxable |-> FALSE]] >> }

DeductionInputs ==
    { <<>>,
      << [key |-> "Car loan", value |-> [amount |-> 500000, type |-> "loan"]],
         [key |-> "Sacco", value |-> [amount |-> 300000, type |-> "sacco"]],
         [key |-> "Cover", value |-> [amount |-> 100000, type |-> "insurance"]] >> }

PensionContributions == { 0, 108000, 3000000 }

MortgageInterests == { 0, 3000000 }

InsurancePremiums == { 0 - 2000000, 0, 1000000, 5000000 }

\* PayrollCalculator(config).calculate_nssf(gross_pay)
CalculateNssf(config, gross_pay) ==
    /\ calc_call = NoCalculation
    /\ calc_call' = [op |-> "calculate_nssf", config |-> config,
                     args |-> [gross_pay |-> gross_pay], raised |-> "",
                     result |-> calculate_nssf(config, gross_pay)]
    /\ UNCHANGED <<db_period, entries, users, mem, now, last, processed, tax_tables, calculator>>

\* PayrollCalculator(config).calculate_tax(taxable_income)
CalculateTax(config, taxable_income) ==
    /\ calc_call = NoCalculation
    /\ calc_call' = [op |-> "calculate_tax", config |-> config,
                     args |-> [taxable_income |-> taxable_income], raised |-> "",
                     result |-> calculate_tax(config, taxable_income)]
    /\ UNCHANGED <<db_period, entries, users, mem, now, last, processed, tax_tables, calculator>>

ReliefPremiums ==
    { 0 - 10000, 0, 1, 3, 4, 33, 500000, 1000000, 3333333, 3333334, 5000000, 99999999 }

\* PayrollCalculator(config).calculate_insurance_relief(insurance_premium)
CalculateInsuranceRelief(config, insurance_premium) ==
    /\ calc_call = NoCalculation
    /\ calc_call' = [op |-> "calculate_insurance_relief", config |-> config,
                     args |-> [insurance_premium |-> insurance_premium], raised |-> "",
                     result |-> calculate_insurance_relief(config, insurance_premium)]
    /\ UNCHANGED <<db_period, entries, users, mem, now, last, processed, tax_tables, calculator>>

\* PayrollCalculator(config).calculate(...); the method has no raise statement and no
\* check of its arguments
Calculate(config, basic_salary, allowances, deductions, pension_contribution, mortgage_interest, insurance_premium, has_disability) ==
    /\ calc_call = NoCalculation
    /\ calc_call' = [op |-> "calculate", config |-> config,
                     args |-> [basic_salary |-> basic_salary, allowances |-> allowances,
                               deductions |-> deductions,
                               pension_contribution |-> pension_contribution,
                               mortgage_interest |-> mortgage_interest,
                               insurance_premium |-> insurance_premium,
                               has_disability |-> has_disability],
                     raised |-> "",
                     result |-> calculate(config, basic_salary, allowances, deductions,
                                          pension_contribution, mortgage_interest,
                                          insurance_premium, has_disability)]
    /\ UNCHANGED <<db_period, entries, users, mem, now, last, processed, tax_tables, calculator>>

\* the first day of the month a period is for
PeriodDates == {PeriodDate - 1, PeriodDate, PeriodDate + 1}

\* PayrollProcessor.get_employee_allowances(employee, period_date), as process_employee
\* calls it to assemble the arguments of calculate
GetEmployeeAllowances(employee, period_date) ==
    /\ calc_call = NoCalculation
    /\ calc_call' = [op |-> "get_employee_allowances", config |-> <<>>,
                     args |-> [employee |-> employee, period_date |-> period_date],
                     raised |-> get_employee_allowances(employee, period_date).raised,
                     result |-> get_employee_allowances(employee, period_date).value]
    /\ UNCHANGED <<db_period, entries, users, mem, now, last, processed, tax_tables, calculator>>

\* PayrollProcessor.get_employee_deductions(employee, period_date)
GetEmployeeDeductions(employee, period_date) ==
    /\ calc_call = NoCalculation
    /\ calc_call' = [op |-> "get_employee_deductions", config |-> <<>>,
                     args |-> [employee |-> employee, period_date |-> period_date],
                     raised |-> get_employee_deductions(employee, period_date).raised,
                     result |-> get_employee_deductions(employee, period_date).value]
    /\ UNCHANGED <<db_period, entries, users, mem, now, last, processed, tax_tables, calculator>>

NextCalculator ==
    \/ \E employee \in Employees, period_date \in PeriodDates :
          GetEmployeeAllowances(employee, period_date)
    \/ \E employee \in Employees, period_date \in PeriodDates :
          GetEmployeeDeductions(employee, period_date)
    \/ \E config \in CalculatorConfigs, insurance_premium \in ReliefPremiums :
          CalculateInsuranceRelief(config, insurance_premium)
    \/ \E config \in CalculatorConfigs, gross_pay \in GrossPays : CalculateNssf(config, gross_pay)
    \/ \E config \in CalculatorConfigs, taxable_income \in TaxableIncomes :
          CalculateTax(config, taxable_income)
    \/ \E config \in CalculatorConfigs, basic_salary \in BasicSalaries,
          allowances \in AllowanceInputs, deductions \in DeductionInputs,
          pension_contribution \in PensionContributions,
          mortgage_interest \in MortgageInterests,
          insurance_premium \in InsurancePremiums, has_disability \in BOOLEAN :
          Calculate(config, basic_salary, allowances, deductions, pension_contribution,
                    mortgage_interest, insurance_premium, has_disability)

SpecCalculator == Init /\ [][NextCalculator]_vars

\* ------------------------------------------------- stored rate configurations
\* the day the Processor is constructed and run: before, in and after the period's month
StartDates == {PeriodDate - 1, PeriodDate, PeriodDate + 1}

\* a new period, any stored TaxTable rows, each employee active or terminated, and a
\* Processor constructed on that day
InitConfig ==
    /\ db_period = NewPeriod
    /\ entries = <<>>
    /\ users \in [Employees -> { [employment_status |-> st, is_active |-> TRUE,
                                  basic_salary |-> 5000000, has_disability |-> FALSE] :
                                st \in {"active", "terminated"} }]
    /\ mem = [p \in Procs |-> NewPeriod]
    /\ now \in StartDates
    /\ last = NoCall
    /\ processed = Null
    /\ tax_tables \in SUBSET TaxTableRows
    /\ calculator \in [Procs -> _get_calculator(tax_tables, now)]
    /\ calc_call = NoCalculation

\* TaxTableAdmin's add form
AdminSaveTaxTable(row) ==
    /\ row \notin tax_tables
    /\ tax_tables' = tax_tables \cup {row}
    /\ last' = NoCall
    /\ UNCHANGED <<db_period, entries, users, mem, now, processed, calculator, calc_call>>

\* TaxTableAdmin's delete action
AdminDeleteTaxTable(row) ==
    /\ row \in tax_tables
    /\ tax_tables' = tax_tables \ {row}
    /\ last' = NoCall
    /\ UNCHANGED <<db_period, entries, users, mem, now, processed, calculator, calc_call>>

NextConfig ==
    \/ \E row \in TaxTableRows : AdminSaveTaxTable(row)
    \/ \E row \in TaxTableRows : AdminDeleteTaxTable(row)
    \/ \E p \in Procs : NewProcessor(p)
    \/ \E p \in Procs, a \in Actors : ProcessAll(p, a)

SpecConfig == InitConfig /\ [][NextConfig]_vars

\* ------------------------------------- two Processor instances on one period
\* two requests, each with its own PayrollProcessor on its own copy of the period row
Instances == {"p1", "p2"}

\* the user whose request each Processor serves
Requester == [p1 |-> "amina", p2 |-> "brian"]

\* a new period, each employee active or terminated, and both Processors constructed
InitConcurrent ==
    /\ db_period = NewPeriod
    /\ entries = <<>>
    /\ users \in [Employees -> { [employment_status |-> st, is_active |-> TRUE,
                                  basic_salary |-> 5000000, has_disability |-> FALSE] :
                                st \in {"active", "terminated"} }]
    /\ mem = [p \in Instances |-> NewPeriod]
    /\ now = 0
    /\ last = NoCall
    /\ processed = Null
    /\ tax_tables = {}
    /\ calculator = [p \in Instances |-> PayrollCalculator(<<>>)]
    /\ calc_call = NoCalculation

\* the calls of the two Processors, one call a step (each runs in transaction.atomic);
\* reject is explored on a Processor whose copy holds no comments yet
NextConcurrent ==
    \/ \E p \in Instances : NewProcessor(p)
    \/ \E p \in Instances : ProcessAll(p, Requester[p])
    \/ \E p \in Instances, c \in HRComments \ {<<>>} : ApproveHR(p, Requester[p], c)
    \/ \E p \in Instances, c \in MgmtComments : ApproveManagement(p, Requester[p], c)
    \/ \E p \in Instances, c \in RejectComments :
          mem[p].hr_comments = <<>> /\ Reject(p, Requester[p], c)
    \/ \E e \in Employees, values \in AdminEntryValues : AdminAddEntry(e, values)

SpecConcurrent == InitConcurrent /\ [][NextConcurrent]_vars

\* ------------------------------------------------------------ properties
\* the Processor's period object of the last call
CallerPeriod == mem[last.proc]

Returns(op) == last.op = op /\ last.raised = ""
Raises(op) == last.op = op /\ last.raised # ""

\* the six totals of the stored period are the sums over the stored entries
TotalsMatchEntries ==
    Totals(db_period) = << SumField(entries, "gross_pay"), SumField(entries, "net_pay"),
                           SumField(entries, "paye"), SumField(entries, "nssf"),
                           SumField(entries, "sha"), SumField(entries, "housing_levy") >>

\* C1: every Processor call keeps the stored totals equal to the sums over the stored
\* entries, and a process_all that returns makes them equal whatever they were before;
\* so from a new period they are equal after any sequence of process_all, approve_hr,
\* approve_management and reject calls.
C1_TotalsEqualEntrySums ==
    [][ last'.op # "none" =>
          ((TotalsMatchEntries \/ Returns("process_all")') => TotalsMatchEntries') ]_vars

\* C1 witness: a period rejected and processed again, with entries to sum
C1_Witness ==
    /\ Returns("process_all")
    /\ entries # <<>>
    /\ \E i \in DOMAIN db_period.hr_comments : db_period.hr_comments[i] = "Rejected by "
    /\ db_period.total_gross = SumField(entries, "gross_pay")
    /\ db_period.total_gross > 0

\* C2: a process_all in which an employee's processing raises raises itself, and leaves
\* the stored entries, the stored period and the Processor's period object as they were.
C2_ProcessAllAllOrNothing ==
    [][ last'.op = "process_all" =>
          /\ (\E i \in DOMAIN get_active_employees(users) :
                process_employee(DEFAULT_CONFIG, users, get_active_employees(users)[i],
                                 entries).raised # "")
             => last'.raised # ""
          /\ last'.raised # "" =>
                /\ entries' = entries
                /\ db_period' = db_period
                /\ mem' = mem ]_vars

\* C2 witness: a process_all on a draft period raised, entries being stored
C2_Witness ==
    /\ Raises("process_all")
    /\ entries # <<>>
    /\ db_period.status = "draft"
    /\ db_period.prepared_by = Null

\* C3: process_all on a period that is not draft raises and changes nothing.
C3_ProcessAllRequiresDraft ==
    [][ (last'.op = "process_all" /\ db_period.status # "draft") =>
          /\ last'.raised # ""
          /\ db_period' = db_period
          /\ mem' = mem
          /\ entries' = entries ]_vars

\* C4: process_all on a draft period with an active employee returns, with prepared_by
\* and prepared_at stamped with the actor and the time, and the period in pending_hr.
C4_ProcessAllCompletes ==
    [][ (/\ last'.op = "process_all"
         /\ db_period.status = "draft"
         /\ mem[last'.proc].status = "draft"
         /\ get_active_employees(users) # <<>>) =>
          /\ last'.raised = ""
          /\ db_period'.status = "pending_hr"
          /\ db_period'.prepared_by = Some(last'.actor)
          /\ db_period'.prepared_at = Some(now) ]_vars

\* the entry process_employee is to store for an employee
ComputedEntry(e) ==
    EntryRow(e, calculate(DEFAULT_CONFIG, users[e].basic_salary,
                          AllowanceDict(SelectSeq(EmployeeAllowanceRows,
                              LAMBDA r : r.employee = e /\ InWindow(r, PeriodDate)), <<>>),
                          get_employee_deductions(e, PeriodDate).value,
                          get_pension_contribution(e, PeriodDate).value, 0,
                          get_insurance_premium(e, PeriodDate).value,
                          users[e].has_disability))

\* C5: there is at most one entry per employee in the period, and a process_all on a
\* draft period leaves, for an active employee who had an entry, that one entry updated
\* to the computed result.
C5_OneEntryPerEmployeeUpdated ==
    [][ /\ \A e \in Employees : Cardinality(RowsOf(entries', e)) <= 1
        /\ (last'.op = "process_all" /\ db_period.status = "draft") =>
              \A e \in Employees :
                 (/\ RowsOf(entries, e) # {}
                  /\ users[e].employment_status = "active"
                  /\ users[e].is_active)
                 => \E i \in RowsOf(entries', e) : entries'[i] = ComputedEntry(e) ]_vars

\* C6: a process_all that returns on inputs an earlier process_all has processed leaves
\* the entries and the six totals as the earlier one left them.
C6_ReprocessingIdempotent ==
    [][ (Returns("process_all")' /\ processed # Null) =>
          /\ entries' = TheOne(processed).rows
          /\ Totals(db_period') = TheOne(processed).totals ]_vars

\* C6 witness: a second process_all returned, with entries and totals to compare
C6_Witness ==
    /\ Returns("process_all")
    /\ last.repeat
    /\ entries # <<>>
    /\ db_period.total_gross > 0

\* C7: approve_hr returns exactly when the period is pending_hr; it then stores the
\* approver, the time and the comments and the status pending_mgmt; and a period
\* becomes pending_mgmt by no other step.
C7_ApproveHR ==
    [][ /\ last'.op = "approve_hr" =>
             /\ (last'.raised = "") <=> (db_period.status = "pending_hr")
             /\ last'.raised = "" =>
                   /\ db_period'.status = "pending_mgmt"
                   /\ db_period'.hr_approved_by = Some(last'.actor)
                   /\ db_period'.hr_approved_at = Some(now)
                   /\ db_period'.hr_comments = last'.comments
                   /\ mem'[last'.proc] = db_period'
        /\ (db_period'.status = "pending_mgmt" /\ db_period.status # "pending_mgmt")
             => Returns("approve_hr")' ]_vars

\* C7 witness: approve_hr returned and the period is pending_mgmt
C7_Witness ==
    /\ Returns("approve_hr")
    /\ db_period.status = "pending_mgmt"
    /\ db_period.hr_approved_by = Some(last.actor)
    /\ db_period.hr_comments = last.comments

\* C8: approve_management returns exactly when the period is pending_mgmt; it then
\* stores the approver, the time and the comments and the status approved; a period
\* becomes approved only by an approve_management on a pending_mgmt period, and
\* pending_mgmt only by an approve_hr on a pending_hr period.
C8_ApproveManagement ==
    [][ /\ last'.op = "approve_management" =>
             /\ (last'.raised = "") <=> (db_period.status = "pending_mgmt")
             /\ last'.raised = "" =>
                   /\ db_period'.status = "approved"
                   /\ db_period'.mgmt_approved_by = Some(last'.actor)
                   /\ db_period'.mgmt_approved_at = Some(now)
                   /\ db_period'.mgmt_comments = last'.comments
                   /\ mem'[last'.proc] = db_period'
        /\ (db_period'.status = "approved" /\ db_period.status # "approved")
             => (Returns("approve_management")' /\ db_period.status = "pending_mgmt")
        /\ (db_period'.status = "pending_mgmt" /\ db_period.status # "pending_mgmt")
             => (Returns("approve_hr")' /\ db_period.status = "pending_hr") ]_vars

\* C8 witness: approve_management returned and the period is approved, HR's stamp set
C8_Witness ==
    /\ Returns("approve_management")
    /\ db_period.status = "approved"
    /\ db_period.mgmt_approved_by = Some(last.actor)
    /\ db_period.hr_approved_by # Null

\* C9: approve_hr on a period that is not pending_hr, and approve_management on one that
\* is not pending_mgmt, raise and leave the stored period, the Processor's period object
\* and the entries as they were.
C9_FailedApprovalChangesNothing ==
    [][ (\/ last'.op = "approve_hr" /\ db_period.status # "pending_hr"
         \/ last'.op = "approve_management" /\ db_period.status # "pending_mgmt") =>
          /\ last'.raised # ""
          /\ db_period' = db_period
          /\ mem' = mem
          /\ entries' = entries ]_vars

\* C9 witness: a second approve_hr on a period already pending_mgmt raised
C9_Witness ==
    /\ Raises("approve_hr")
    /\ db_period.status = "pending_mgmt"
    /\ CallerPeriod = db_period
    /\ entries # <<>>

\* C10: reject on a period that is draft, approved or paid raises and leaves the status,
\* the approval stamps and the comment trail as they were.
C10_RejectRequiresPending ==
    [][ (last'.op = "reject" /\ db_period.status \notin {"pending_hr", "pending_mgmt"}) =>
          /\ last'.raised # ""
          /\ db_period'.status = db_period.status
          /\ db_period'.hr_approved_by = db_period.hr_approved_by
          /\ db_period'.hr_approved_at = db_period.hr_approved_at
          /\ db_period'.mgmt_approved_by = db_period.mgmt_approved_by
          /\ db_period'.mgmt_approved_at = db_period.mgmt_approved_at
          /\ db_period'.hr_comments = db_period.hr_comments ]_vars

\* C11: reject on a period that is pending_hr or pending_mgmt returns; the period is then
\* draft, and its HR approver, HR approval time, management approver and management
\* approval time are all empty, in the stored row and in the Processor's object.
C11_RejectReturnsToDraft ==
    [][ (last'.op = "reject" /\ db_period.status \in {"pending_hr", "pending_mgmt"}) =>
          /\ last'.raised = ""
          /\ db_period'.status = "draft"
          /\ db_period'.hr_approved_by = Null
          /\ db_period'.hr_approved_at = Null
          /\ db_period'.mgmt_approved_by = Null
          /\ db_period'.mgmt_approved_at = Null
          /\ mem'[last'.proc] = db_period' ]_vars

\* C11 witness: a period that HR had approved with a comment was rejected: it is draft,
\* the HR stamp is gone, the HR comment is still in the trail before the note
C11_Witness ==
    /\ Returns("reject")
    /\ db_period.status = "draft"
    /\ db_period.prepared_by # Null
    /\ db_period.hr_approved_by = Null
    /\ Len(db_period.hr_comments) > 1
    /\ db_period.hr_comments[1] = "checked"

\* whether s begins with the sequence pre
IsPrefix(pre, s) == Len(pre) <= Len(s) /\ SubSeq(s, 1, Len(pre)) = pre

\* whether s ends with the sequence post
IsSuffix(post, s) == Len(post) <= Len(s) /\ SubSeq(s, Len(s) - Len(post) + 1, Len(s)) = post

\* C12: a reject that returns leaves a comment trail that begins with the trail as it
\* was before the call and ends with the note, which names the rejecting actor and
\* carries the given comments; the trail has grown.
C12_RejectAppendsNote ==
    [][ Returns("reject")' =>
          /\ IsPrefix(db_period.hr_comments, db_period'.hr_comments)
          /\ IsSuffix(<< "Rejected by ", last'.actor, ": " >> \o last'.comments,
                      db_period'.hr_comments)
          /\ Len(db_period'.hr_comments) > Len(db_period.hr_comments) ]_vars

\* C12 witness: a second rejection was noted after the first one's note
C12_Witness ==
    /\ Returns("reject")
    /\ Len(db_period.hr_comments) > 5
    /\ db_period.hr_comments[1] = "Rejected by "
    /\ db_period.hr_comments[5] = "\n\n"

\* what the call would do on the period row as stored: the call made by a Processor
\* that holds the row as the previous call left it
SerialOutcome(op, p, actor, comments) ==
    CASE op = "process_all" ->
           process_all(db_period, db_period, entries, calculator[p], users, actor, now)
      [] op = "approve_hr" -> approve_hr(db_period, db_period, entries, actor, comments, now)
      [] op = "approve_management" ->
           approve_management(db_period, db_period, entries, actor, comments, now)
      [] OTHER -> reject(db_period, db_period, entries, actor, comments)

\* C13: with two Processor instances on one period, every call does what it would do
\* run after the previous call on the row that call stored: it raises exactly when that
\* row's status fails its precondition, and the row and the entries it stores are those
\* computed from that row, never from an older copy.
C13_CallsSerialised ==
    [][ last'.op # "none" =>
          LET serial == SerialOutcome(last'.op, last'.proc, last'.actor, last'.comments)
          IN /\ last'.raised = serial.raised
             /\ last'.raised = "" => (db_period' = serial.db /\ entries' = serial.rows) ]_vars

\* C14: a process_all while no active TaxTable row covers the period's date (nor the
\* day of the run) raises ConfigurationMissing and leaves the entries, the stored
\* period and the Processor's period object as they were.
C14_MissingConfigurationStopsRun ==
    [][ (/\ last'.op = "process_all"
         /\ get_active(tax_tables, PeriodDate) = {}
         /\ get_active(tax_tables, now) = {}) =>
          /\ last'.raised = "ConfigurationMissing"
          /\ entries' = entries
          /\ db_period' = db_period
          /\ mem' = mem ]_vars

\* the rows that qualify for a date: active, begun, and not ended
Candidates(date) ==
    { t \in tax_tables :
        /\ t.is_active = TRUE
        /\ ~ (t.effective_from > date)
        /\ \A to \in t.effective_to : ~ (to < date) }

\* C15: for the stored rows and every date, what get_active can return is a row that
\* qualifies for the date and that no qualifying row follows in effective_from; it
\* returns None exactly when no row qualifies.
C15_ResolverPicksLatest ==
    \A date \in 0..MaxDate :
       LET found == get_active(tax_tables, date)
       IN /\ (found = {}) <=> (Candidates(date) = {})
          /\ \A t \in found :
                /\ t \in Candidates(date)
                /\ \A c \in Candidates(date) : c.effective_from <= t.effective_from

\* C15 witness: with an older open row, an ended row, a later inactive row and the
\* newest running row stored, a Processor constructed after the period's month holds
\* the newest running row's rates
C15_Witness ==
    /\ tax_tables = TaxTableRows
    /\ now = PeriodDate + 1
    /\ Cardinality(Candidates(now)) = 2
    /\ \A t \in get_active(tax_tables, now) : t.id = "t3"
    /\ calculator["p1"].sha_rate = 300

C17_NegativeAmountsRejected ==
    (/\ calc_call.op = "calculate"
     /\ \/ calc_call.args.basic_salary < 0
        \/ calc_call.args.pension_contribution < 0
        \/ calc_call.args.insurance_premium < 0
        \/ \E i \in DOMAIN calc_call.args.allowances :
              calc_call.args.allowances[i].value.amount < 0
        \/ \E i \in DOMAIN calc_call.args.deductions :
              calc_call.args.deductions[i].value.amount < 0)
    => calc_call.raised = "ValidationError"

\* a product of an amount in cents and a rate in 1/10000, rounded half up to cents
Round2(product) ==
    IF product >= 0 THEN (product + ScaleRate \div 2) \div ScaleRate
    ELSE 0 - ((ScaleRate \div 2 - product) \div ScaleRate)

\* C18: calculate_nssf(gross) is round2(rate1 * min(gross, limit1)) plus, when gross is
\* above limit1, round2(rate2 * (min(gross, limit2) - limit1)); so it is
\* round2(rate1 * gross) up to limit1 and one fixed value from limit2 on; under the
\* default rates 5,000 gives 300.00, 7,000 gives 420.00, 36,000 and 100,000 give 2,160.00.
C18_NssfTwoTiers ==
    calc_call.op = "calculate_nssf" =>
       LET config == calc_call.config
           gross == calc_call.args.gross_pay
           limit1 == config.nssf_tier1_limit
           limit2 == config.nssf_tier2_limit
           tier1 == Round2(config.nssf_tier1_rate * (IF gross < limit1 THEN gross ELSE limit1))
           tier2 == IF gross > limit1
                    THEN Round2(config.nssf_tier2_rate
                                * ((IF gross < limit2 THEN gross ELSE limit2) - limit1))
                    ELSE 0
       IN /\ calc_call.result = tier1 + tier2
          /\ gross <= limit1 => calc_call.result = Round2(config.nssf_tier1_rate * gross)
          /\ gross >= limit2 => calc_call.result = calculate_nssf(config, limit2)
          /\ config = DEFAULT_CONFIG =>
                /\ gross = 500000 => calc_call.result = 30000
                /\ gross = 700000 => calc_call.result = 42000
                /\ gross = 3600000 => calc_call.result = 216000
                /\ gross = 10000000 => calc_call.result = 216000

\* C18 witness: 100,000 under the default rates gave the capped 2,160.00
C18_Witness ==
    /\ calc_call.op = "calculate_nssf"
    /\ calc_call.config = DEFAULT_CONFIG
    /\ calc_call.args.gross_pay = 10000000
    /\ calc_call.result = 216000

\* the part of an income that lies between two limits
BandSlice(income, lower, upper) ==
    IF income <= lower THEN 0
    ELSE IF income >= upper THEN upper - lower
    ELSE income - lower

\* C19: calculate_tax(income) is the sum, over the bands from the lowest, of the tax on
\* the part of the income inside the band at the band's rate, each rounded to cents, the
\* top band taking all that is above the fourth limit; it is 0 for an income of 0 or
\* less; under the default bands 20,000 gives 2,000.00 and 30,000 gives 3,900.00.
C19_TaxBandByBand ==
    calc_call.op = "calculate_tax" =>
       LET config == calc_call.config
           income == calc_call.args.taxable_income
       IN /\ income <= 0 => calc_call.result = 0
          /\ income > 0 =>
                calc_call.result =
                    RoundMul(BandSlice(income, 0, config.band_1_limit), config.band_1_rate)
                  + RoundMul(BandSlice(income, config.band_1_limit, config.band_2_limit),
                             config.band_2_rate)
                  + RoundMul(BandSlice(income, config.band_2_limit, config.band_3_limit),
                             config.band_3_rate)
                  + RoundMul(BandSlice(income, config.band_3_limit, config.band_4_limit),
                             config.band_4_rate)
                  + RoundMul(IF income > config.band_4_limit
                             THEN income - config.band_4_limit ELSE 0, config.band_5_rate)
          /\ (income > 0 /\ income <= 2000000) =>
                calc_call.result = Round2(config.band_1_rate * income)
          /\ config = DEFAULT_CONFIG =>
                /\ income = 2000000 => calc_call.result = 200000
                /\ income = 3000000 => calc_call.result = 390000

\* C19 witness: 30,000 under the default bands gave 3,900.00, from two bands
C19_Witness ==
    /\ calc_call.op = "calculate_tax"
    /\ calc_call.config = DEFAULT_CONFIG
    /\ calc_call.args.taxable_income = 3000000
    /\ calc_call.result = 390000

\* C20: the PAYE of a result is never negative; it is zero when personal relief plus
\* insurance relief plus disability exemption reach the tax charged, and the tax
\* charged less those reliefs otherwise.
C20_PayeNeverNegative ==
    calc_call.op = "calculate" =>
       LET r == calc_call.result
           total_relief == r.personal_relief + r.insurance_relief + r.disability_exemption
       IN /\ r.paye >= 0
          /\ total_relief >= r.tax_charged => r.paye = 0
          /\ total_relief < r.tax_charged => r.paye = r.tax_charged - total_relief
          /\ r.personal_relief = calc_call.config.personal_relief
          /\ r.disability_exemption =
                (IF calc_call.args.has_disability
                 THEN calc_call.config.disability_exemption ELSE 0)

\* C20 witness: a disabled employee on 50,000 is charged tax and pays no PAYE
C20_Witness ==
    /\ calc_call.op = "calculate"
    /\ calc_call.args.basic_salary = 5000000
    /\ calc_call.args.has_disability
    /\ calc_call.result.tax_charged > calc_call.result.personal_relief
    /\ calc_call.result.paye = 0

\* C21: the insurance relief is round2(rate * premium) when that is at most the cap and
\* the cap otherwise, so it never exceeds the cap, and the call raises nothing; under
\* the defaults a premium of 5,000 gives 750.00 and one of 50,000 gives 5,000.00.
C21_InsuranceReliefCapped ==
    calc_call.op = "calculate_insurance_relief" =>
       LET config == calc_call.config
           premium == calc_call.args.insurance_premium
           nominal == RoundMul(premium, config.insurance_relief_rate)
       IN /\ calc_call.raised = ""
          /\ calc_call.result <= config.insurance_relief_max
          /\ calc_call.result = (IF nominal > config.insurance_relief_max
                                 THEN config.insurance_relief_max ELSE nominal)
          /\ (premium >= 0 /\ premium <= 1000000) =>
                nominal = Round2(config.insurance_relief_rate * premium)
          /\ config = DEFAULT_CONFIG =>
                /\ premium = 500000 => calc_call.result = 75000
                /\ premium = 5000000 => calc_call.result = 500000

\* C21 witness: a premium of 50,000, nominally worth 7,500.00, gave the cap of 5,000.00
C21_Witness ==
    /\ calc_call.op = "calculate_insurance_relief"
    /\ calc_call.config = DEFAULT_CONFIG
    /\ calc_call.args.insurance_premium = 5000000
    /\ RoundMul(5000000, DEFAULT_CONFIG.insurance_relief_rate) = 750000
    /\ calc_call.result = 500000

\* C22: in a result the deductible pension is the contribution or the pension cap,
\* whichever is less, the deductible mortgage interest is the interest or the mortgage
\* cap, whichever is less, and the taxable income is gross pay less social security,
\* deductible pension and deductible mortgage interest, or 0 when that is negative;
\* basic 53,000 with pension 1,080 gives 49,760.00 under the defaults.
C22_TaxableIncome ==
    calc_call.op = "calculate" =>
       LET config == calc_call.config
           args == calc_call.args
           r == calc_call.result
           before_floor == r.gross_pay - r.nssf - r.pension_deductible
                           - r.owner_occupied_interest
       IN /\ r.pension_deductible =
                (IF args.pension_contribution > config.pension_max_deduction
                 THEN config.pension_max_deduction ELSE args.pension_contribution)
          /\ r.owner_occupied_interest =
                (IF args.mortgage_interest > config.mortgage_interest_max
                 THEN config.mortgage_interest_max ELSE args.mortgage_interest)
          /\ r.nssf = calculate_nssf(config, r.gross_pay)
          /\ r.taxable_income = (IF before_floor < 0 THEN 0 ELSE before_floor)
          /\ r.taxable_income >= 0
          /\ (/\ config = DEFAULT_CONFIG
              /\ args.basic_salary = 5300000
              /\ args.allowances = <<>>
              /\ args.pension_contribution = 108000
              /\ args.mortgage_interest = 0)
             => (r.taxable_income = 4976000 /\ r.personal_relief = 240000)

\* C22 witness: basic 53,000 with pension 1,080 gave 49,760.00
C22_Witness ==
    /\ calc_call.op = "calculate"
    /\ calc_call.config = DEFAULT_CONFIG
    /\ calc_call.args.basic_salary = 5300000
    /\ calc_call.args.pension_contribution = 108000
    /\ calc_call.result.pension_deductible = 108000
    /\ calc_call.result.nssf = 216000
    /\ calc_call.result.taxable_income = 4976000

\* the sum of the amounts of the items of a dict
RECURSIVE SumAmounts(_)
SumAmounts(items) ==
    IF items = <<>> THEN 0 ELSE Head(items).value.amount + SumAmounts(Tail(items))

\* C23: in a result the total deductions are PAYE, social security, health levy,
\* housing levy and the loan, sacco and other deductions added up, the three buckets
\* together hold every deduction given, and net pay is gross pay less the total
\* deductions, negative when the deductions exceed the gross pay.
C23_NetPayNotClamped ==
    calc_call.op = "calculate" =>
       LET r == calc_call.result
       IN /\ r.total_deductions = r.paye + r.nssf + r.sha + r.housing_levy
                                  + r.loan_deductions + r.sacco_deductions + r.other_deductions
          /\ r.loan_deductions + r.sacco_deductions + r.other_deductions
                = SumAmounts(calc_call.args.deductions)
          /\ r.net_pay = r.gross_pay - r.total_deductions
          /\ r.total_deductions > r.gross_pay => r.net_pay < 0

\* C23 witness: no salary and 9,000.00 of deductions gave a net pay of -9,000.00
C23_Witness ==
    /\ calc_call.op = "calculate"
    /\ calc_call.args.basic_salary = 0
    /\ calc_call.args.allowances = <<>>
    /\ calc_call.result.loan_deductions = 500000
    /\ calc_call.result.sacco_deductions = 300000
    /\ calc_call.result.other_deductions = 100000
    /\ calc_call.result.net_pay = 0 - 900000

\* C24: for the same inputs and config, the result with the disability flag set differs
\* from the one without it in the exemption, which is the configured amount, and in
\* what follows from adding it to the total relief; its PAYE is not higher and its net
\* pay not lower; and when the exemption is at least the tax charged its PAYE is 0 and
\* its net pay is above the other's if that one has PAYE above 0.
C24_DisabilityExemption ==
    calc_call.op = "calculate" =>
       LET config == calc_call.config
           args == calc_call.args
           disabled == calculate(config, args.basic_salary, args.allowances, args.deductions,
                                 args.pension_contribution, args.mortgage_interest,
                                 args.insurance_premium, TRUE)
           other == calculate(config, args.basic_salary, args.allowances, args.deductions,
                              args.pension_contribution, args.mortgage_interest,
                              args.insurance_premium, FALSE)
           exemption == config.disability_exemption
       IN /\ calc_call.result = (IF args.has_disability THEN disabled ELSE other)
          /\ disabled.disability_exemption = exemption
          /\ other.disability_exemption = 0
          /\ disabled = [other EXCEPT !.disability_exemption = exemption,
                                       !.paye = disabled.paye,
                                       !.total_deductions = disabled.total_deductions,
                                       !.net_pay = disabled.net_pay]
          /\ disabled.paye <= other.paye
          /\ disabled.net_pay = other.net_pay + (other.paye - disabled.paye)
          /\ exemption >= disabled.tax_charged =>
                /\ disabled.paye = 0
                /\ other.paye > 0 => disabled.net_pay > other.net_pay

\* the sum of the amounts of the rows of an employee whose window holds the date
RECURSIVE SumInWindow(_, _, _)
SumInWindow(rows, employee, period_date) ==
    IF rows = <<>> THEN 0
    ELSE (IF Head(rows).employee = employee /\ InWindow(Head(rows), period_date)
          THEN Head(rows).amount ELSE 0)
         + SumInWindow(Tail(rows), employee, period_date)

\* C25: what the Processor hands to calculate for an employee holds every allowance row
\* and every deduction row of the employee whose window holds the period date: the
\* amounts handed over add up to the amounts of those rows, whatever the rows' names,
\* so that gross pay is the basic salary plus all of those allowances and the loan,
\* sacco and other buckets together are all of those deductions.
C25_EveryRowInWindowCounted ==
    /\ calc_call.op = "get_employee_allowances" =>
          /\ calc_call.raised = ""
          /\ SumAmounts(calc_call.result)
                = SumInWindow(EmployeeAllowanceRows, calc_call.args.employee,
                              calc_call.args.period_date)
    /\ calc_call.op = "get_employee_deductions" =>
          /\ calc_call.raised = ""
          /\ SumAmounts(calc_call.result)
                = SumInWindow(EmployeeDeductionRows, calc_call.args.employee,
                              calc_call.args.period_date)

\* C26: after a process_all that returns, the employees with an entry in the period are
\* exactly the employees active at the run, one entry each.
C26_EntriesAreCurrentWorkforce ==
    [][ Returns("process_all")' =>
          \A e \in Employees :
             Cardinality(RowsOf(entries', e))
               = (IF users[e].employment_status = "active" /\ users[e].is_active
                  THEN 1 ELSE 0) ]_vars

\* C27: the stored approval stamps agree with the stored status: none in draft and
\* pending_hr, HR's alone in pending_mgmt, both in approved.
C27_StampsAgreeWithStatus ==
    LET hr == db_period.hr_approved_by # Null /\ db_period.hr_approved_at # Null
        no_hr == db_period.hr_approved_by = Null /\ db_period.hr_approved_at = Null
        mgmt == db_period.mgmt_approved_by # Null /\ db_period.mgmt_approved_at # Null
        no_mgmt == db_period.mgmt_approved_by = Null /\ db_period.mgmt_approved_at = Null
    IN /\ db_period.status \in {"draft", "pending_hr"} => (no_hr /\ no_mgmt)
       /\ db_period.status = "pending_mgmt" => (hr /\ no_mgmt)
       /\ db_period.status = "approved" => (hr /\ mgmt)

\* whether the trail holds a rejection note
HasRejectionNote(trail) == \E i \in DOMAIN trail : trail[i] = "Rejected by "

\* C28: a comment trail that holds a rejection note holds one after every later
\* process_all, approve_hr, approve_management and reject.
C28_RejectionNoteStays ==
    [][ (last'.op # "none" /\ HasRejectionNote(db_period.hr_comments))
          => HasRejectionNote(db_period'.hr_comments) ]_vars

\* C29: approve_hr, approve_management and reject leave the stored entries, the six
\* stored totals and the stored prepared_by and prepared_at as they were, also when
\* called on a Processor constructed before another Processor's process_all.
C29_ApprovalsLeaveTotals ==
    [][ last'.op \in {"approve_hr", "approve_management", "reject"} =>
          /\ entries' = entries
          /\ Totals(db_period') = Totals(db_period)
          /\ db_period'.prepared_by = db_period.prepared_by
          /\ db_period'.prepared_at = db_period.prepared_at ]_vars

\* C30: when a TaxTable row is in force on the period's date, the calculator a
\* process_all runs with holds the rates of such a row, whatever the day on which the
\* Processor was constructed.
C30_ConfigurationOfPeriodDate ==
    [][ (last'.op = "process_all" /\ get_active(tax_tables, PeriodDate) # {}) =>
          calculator[last'.proc] \in _get_calculator(tax_tables, PeriodDate) ]_vars

====
